---- MODULE Spec2Model ----
(***************************************************************************)
(* A model of clean_transactions.py: the extraction of flat transaction    *)
(* records from raw JSON events, the normalisation of the amount column,   *)
(* the filter chain, the archival of the raw events and the export.        *)
(*                                                                         *)
(* Text is modelled character by character: a Python str is a sequence of  *)
(* one-character strings, so that substring tests, the regex strip and the *)
(* float conversion are computed as the code computes them.                *)
(***************************************************************************)
EXTENDS Integers, Sequences, FiniteSets, TLC

\* The longest list of raw events read from the input file.
MaxEvents == 2
\* The longest amount string enumerated exhaustively over AmountAlphabet.
MaxLen == 4

(***************************************************************************)
(* JSON values as json.loads returns them: None, str, list of str, dict.   *)
(* Every value carries all four fields, so that any two can be compared.   *)
(***************************************************************************)
JNull == [t |-> "null", s |-> <<>>, l |-> <<>>, d |-> <<>>]
JStr(s) == [t |-> "str", s |-> s, l |-> <<>>, d |-> <<>>]
JList(l) == [t |-> "list", s |-> <<>>, l |-> l, d |-> <<>>]
JDict(d) == [t |-> "dict", s |-> <<>>, l |-> <<>>, d |-> d]
EmptyDict == JDict(<<>>)
EmptyList == JList(<<>>)

\* d with key k set to v, and d without key k.
With(j, k, v) == JDict([x \in (DOMAIN j.d) \cup {k} |-> IF x = k THEN v ELSE j.d[x]])
Without(j, k) == JDict([x \in (DOMAIN j.d) \ {k} |-> j.d[x]])

(***************************************************************************)
(* Text constants of the program and of the inputs.                        *)
(***************************************************************************)
sHeartbeat == <<"h", "e", "a", "r", "t", "b", "e", "a", "t">>
sUSD == <<"U", "S", "D">>
sTest == <<"t", "e", "s", "t">>
sSandbox == <<"s", "a", "n", "d", "b", "o", "x">>
sNormal == <<"n", "o", "r", "m", "a", "l">>
sFAILED == <<"F", "A", "I", "L", "E", "D">>
sPENDING == <<"P", "E", "N", "D", "I", "N", "G">>
sNone == <<"N", "o", "n", "e">>
sDot == <<".">>
sDollar == <<"$">>
sComma == <<",">>

sPaid == <<"p", "a", "i", "d">>
sSUCCESS == <<"S", "U", "C", "C", "E", "S", "S">>
sPromo == <<"p", "r", "o", "m", "o">>
sContest == <<"c", "o", "n", "t", "e", "s", "t">>
sTEST == <<"T", "E", "S", "T">>
sEUR == <<"E", "U", "R">>
sO1 == <<"o", "1">>
sP1 == <<"p", "1">>
sMail == <<"a", "@", "b">>
sTs == <<"t", "0">>
sRef == <<"r", "1">>
sProv == <<"v", "1">>

DigitChars == <<"0", "1", "2", "3", "4", "5", "6", "7", "8", "9">>
Digits == {DigitChars[i] : i \in 1..Len(DigitChars)}
Whitespace == {" ", "\t", "\n"}

\* Python's `pat in s`, and str.contains for a pattern without metacharacters.
Contains(s, pat) ==
    \E i \in 1..(Len(s) - Len(pat) + 1) : SubSeq(s, i, i + Len(pat) - 1) = pat

\* ','.join(l)
RECURSIVE Join(_)
Join(l) ==
    IF l = <<>> THEN <<>>
    ELSE IF Len(l) = 1 THEN l[1]
    ELSE l[1] \o sComma \o Join(Tail(l))

(***************************************************************************)
(* getting_relevant_data: the fixed nested-path lookups.                   *)
(***************************************************************************)
\* dict.get(k, default) on a dict j.
Get(j, k, default) == IF k \in DOMAIN j.d THEN j.d[k] ELSE default

\* record.get(k1, {}).get(k2, {})....get(kn, default)
RECURSIVE ChainGet(_, _, _)
ChainGet(j, path, default) ==
    IF Len(path) = 1 THEN Get(j, path[1], default)
    ELSE ChainGet(Get(j, Head(path), EmptyDict), Tail(path), default)

\* The chain raises AttributeError when a .get is applied to a value that is
\* no dict (None, a str, a list).
RECURSIVE ChainRaises(_, _)
ChainRaises(j, path) ==
    IF path = <<>> THEN FALSE
    ELSE IF j.t # "dict" THEN TRUE
    ELSE ChainRaises(Get(j, Head(path), EmptyDict), Tail(path))

PathType == <<"event", "type">>
PathOrderId == <<"entity", "order", "id">>
PathEmail == <<"entity", "customer", "email">>
PathPaymentId == <<"entity", "payment", "id">>
PathAmount == <<"payload", "Amount">>
PathCurrency == <<"entity", "payload", "Currency">>
PathCreatedAt == <<"event", "ts">>
PathFlags == <<"payload", "flags">>
PathRef == <<"entity", "payment", "provider_ref">>
PathProvider == <<"entity", "payment", "provider">>
PathStatus == <<"payload", "status">>

FieldPaths ==
    [order_id |-> PathOrderId, customer_email |-> PathEmail,
     payment_id |-> PathPaymentId, amount |-> PathAmount,
     currency |-> PathCurrency, created_at |-> PathCreatedAt,
     flags |-> PathFlags, payment_ref |-> PathRef,
     payment_provider |-> PathProvider, payment_status |-> PathStatus]

\* Variant: every lookup defaults to None.
FieldDefault_AllNone(f) == JNull

\* The default of the last .get of each field's chain.
FieldDefault(f) ==
    IF f = "currency" THEN JStr(sUSD)
    ELSE IF f = "flags" THEN EmptyList
    ELSE JNull

IsHeartbeat(record) == ChainGet(record, PathType, JNull) = JStr(sHeartbeat)

\* The dict built for one retained event (lines 35-46).
RelevantData(record) ==
    [f \in DOMAIN FieldPaths |-> ChainGet(record, FieldPaths[f], FieldDefault(f))]

\* Whether the loop body raises on this event: the event.type lookup, then,
\* for an event that is kept, the ten field lookups.
RecordRaises(record) ==
    \/ ChainRaises(record, PathType)
    \/ /\ ~IsHeartbeat(record)
       /\ \E f \in DOMAIN FieldPaths : ChainRaises(record, FieldPaths[f])

RECURSIVE RelevantList(_)
RelevantList(data) ==
    IF data = <<>> THEN <<>>
    ELSE IF IsHeartbeat(Head(data)) THEN RelevantList(Tail(data))
    ELSE <<RelevantData(Head(data))>> \o RelevantList(Tail(data))

\* getting_relevant_data(data): the list, or None (ok = FALSE) when the
\* try block raised; the except clause logs and falls off the end.
getting_relevant_data(data) ==
    IF \E i \in 1..Len(data) : RecordRaises(data[i])
    THEN [ok |-> FALSE, recs |-> <<>>]
    ELSE [ok |-> TRUE, recs |-> RelevantList(data)]

(***************************************************************************)
(* The DataFrame: whether it has columns at all, and its rows in order.    *)
(* A row keeps its index label (idx), which boolean indexing and dropna    *)
(* preserve and DataFrame.drop selects by.                                 *)
(***************************************************************************)
\* Values of the amount_usd column: no such column yet, NaN, a str (the
\* column between lines 83 and 87) or a float64.  A float is the decimal
\* m * 10^-e with no trailing zero kept in m: within the lengths modelled
\* (far below 15 significant digits) two float64 results are equal exactly
\* when these decimals are.
NoColumn == [t |-> "absent", s |-> <<>>, m |-> 0, e |-> 0]
NaN == [t |-> "nan", s |-> <<>>, m |-> 0, e |-> 0]
Text(s) == [t |-> "str", s |-> s, m |-> 0, e |-> 0]

RECURSIVE Float(_, _)
Float(m, e) ==
    IF e > 0 /\ m % 10 = 0 THEN Float(m \div 10, e - 1)
    ELSE [t |-> "float", s |-> <<>>, m |-> m, e |-> e]

DataCols == (DOMAIN FieldPaths) \cup {"amount_usd"}

MakeRow(i, rec) == rec @@ [idx |-> i, amount_usd |-> NoColumn]

\* pd.DataFrame(relevant_datafile): None and [] both give a frame with no
\* columns; a non-empty list of dicts gives their keys as columns and a
\* RangeIndex.
DataFrame(rel) ==
    IF ~rel.ok \/ rel.recs = <<>> THEN [cols |-> FALSE, rows |-> <<>>]
    ELSE [cols |-> TRUE,
          rows |-> [i \in 1..Len(rel.recs) |-> MakeRow(i - 1, rel.recs[i])]]

\* A boolean Series is a sequence of booleans, one per row.
\* mask.any() and ~mask
AnyTrue(mask) == \E i \in 1..Len(mask) : mask[i]
Not(mask) == [i \in 1..Len(mask) |-> ~mask[i]]
\* frame[mask]
RECURSIVE SelectRows(_, _)
SelectRows(rows, mask) ==
    IF rows = <<>> THEN <<>>
    ELSE (IF Head(mask) THEN <<Head(rows)>> ELSE <<>>) \o SelectRows(Tail(rows), Tail(mask))
Select(frame, mask) == [frame EXCEPT !.rows = SelectRows(frame.rows, mask)]
\* frame.index
Index(frame) == {frame.rows[i].idx : i \in 1..Len(frame.rows)}
\* frame.drop(labels)
Drop(frame, labels) ==
    Select(frame, [i \in 1..Len(frame.rows) |-> frame.rows[i].idx \notin labels])

\* frame[col].isnull()
IsNull(v) == v.t = "null"
IsNullMask(frame, col) == [i \in 1..Len(frame.rows) |-> IsNull(frame.rows[i][col])]

(***************************************************************************)
(* clean_transactions (lines 60-67).  df.order_id on a frame without       *)
(* columns raises AttributeError (ok = FALSE).                             *)
(***************************************************************************)
\* frame.dropna(subset=[col])
DropNa(frame, col) == Select(frame, Not(IsNullMask(frame, col)))

DropNaOrderId(frame) ==
    IF AnyTrue(IsNullMask(frame, "order_id")) THEN DropNa(frame, "order_id") ELSE frame

DropNaPaymentId(frame) ==
    IF AnyTrue(IsNullMask(frame, "payment_id")) THEN DropNa(frame, "payment_id") ELSE frame

clean_transactions(frame) ==
    IF ~frame.cols THEN [ok |-> FALSE, df |-> frame]
    ELSE [ok |-> TRUE, df |-> DropNaPaymentId(DropNaOrderId(frame))]

(***************************************************************************)
(* normalize_amount (lines 72-95).                                         *)
(***************************************************************************)
\* astype(str) of one element of the amount column (the inputs modelled
\* carry amounts that are str or None).  A str is kept.  None becomes the
\* text 'None' in pandas before 3.0 and stays a missing value from 3.0 on;
\* the repository pins no version, so keepna ranges over both.
AsTypeStr(v, keepna) ==
    IF v.t = "str" THEN Text(v.s)
    ELSE IF keepna THEN NaN
    ELSE Text(sNone)

\* Variant: the '$' test left out.
is_cent_NoDollarTest(value) ==
    IF value.t = "nan" \/ value.s = <<>> THEN FALSE
    ELSE IF Contains(value.s, sDot) \/ Contains(value.s, sUSD) THEN FALSE
    ELSE TRUE

\* is_cent(value), applied to one element of the str form.
is_cent(value) ==
    IF value.t = "nan" \/ value.s = <<>> THEN FALSE
    ELSE IF Contains(value.s, sDot) \/ Contains(value.s, sDollar) \/ Contains(value.s, sUSD)
         THEN FALSE
    ELSE TRUE

\* Variants: a character class that keeps the sign, r'[^\d.\-]', and one
\* that drops the decimal point too, r'[^\d]'.
KeptByRegex_KeepsSign(c) == c \in Digits \/ c = "." \/ c = "-"
KeptByRegex_DigitsOnly(c) == c \in Digits

\* str.replace(r'[^\d.]', '', regex=True)
KeptByRegex(c) == c \in Digits \/ c = "."
RegexStrip(s) == SelectSeq(s, KeptByRegex)

\* str.strip()
RECURSIVE LStrip(_)
LStrip(s) == IF s # <<>> /\ Head(s) \in Whitespace THEN LStrip(Tail(s)) ELSE s
RECURSIVE RStrip(_)
RStrip(s) ==
    IF s # <<>> /\ s[Len(s)] \in Whitespace THEN RStrip(SubSeq(s, 1, Len(s) - 1)) ELSE s
StrStrip(s) == RStrip(LStrip(s))

\* Lines 83-86: the str column (the str methods leave a missing value
\* missing), '' replaced by NaN.
Stripped(v, keepna) ==
    LET u == AsTypeStr(v, keepna)
        s == StrStrip(RegexStrip(u.s))
    IN  IF u.t = "nan" \/ s = <<>> THEN NaN ELSE Text(s)

DigitVal(c) == CHOOSE i \in 0..9 : DigitChars[i + 1] = c
RECURSIVE NatOf(_)
NatOf(ds) ==
    IF ds = <<>> THEN 0
    ELSE NatOf(SubSeq(ds, 1, Len(ds) - 1)) * 10 + DigitVal(ds[Len(ds)])

CountOf(s, c) == Cardinality({i \in 1..Len(s) : s[i] = c})

\* float(s) for a text of digits, '.', and a sign: an optional leading sign,
\* then at least one digit and at most one '.'; anything else is a ValueError.
UnsignedBody(s) == IF s # <<>> /\ Head(s) \in {"-", "+"} THEN Tail(s) ELSE s
FloatOk(s) ==
    LET b == UnsignedBody(s)
    IN  /\ \A i \in 1..Len(b) : b[i] \in Digits \cup {"."}
        /\ CountOf(b, ".") <= 1
        /\ \E i \in 1..Len(b) : b[i] \in Digits
FloatOf(s) ==
    LET b == UnsignedBody(s)
        ds == SelectSeq(b, LAMBDA c : c \in Digits)
        frac == IF CountOf(b, ".") = 0 THEN 0
                ELSE Len(b) - (CHOOSE i \in 1..Len(b) : b[i] = ".")
        sign == IF s # <<>> /\ Head(s) = "-" THEN -1 ELSE 1
    IN  Float(sign * NatOf(ds), frac)

\* astype('float64') of one element: NaN stays NaN.
AsFloatOk(u) == u.t = "nan" \/ FloatOk(u.s)
AsFloat(u) == IF u.t = "nan" THEN NaN ELSE FloatOf(u.s)

\* Line 89: x / 100.
Div100(u) == IF u.t = "float" THEN Float(u.m, u.e + 2) ELSE u

\* amount_usd > 0 (False for NaN).
Positive(u) == u.t = "float" /\ u.m > 0
PositiveMask(frame) == [i \in 1..Len(frame.rows) |-> Positive(frame.rows[i].amount_usd)]

\* The amount_usd of one row at line 89.
AmountUsd(v, keepna) ==
    IF is_cent(AsTypeStr(v, keepna))
    THEN Div100(AsFloat(Stripped(v, keepna)))
    ELSE AsFloat(Stripped(v, keepna))

\* normalize_amount(df1): the returned frame, the cents_rep series, and the
\* frame as mutated in place (the caller's object).  When line 87 raises
\* ValueError (ok = FALSE) the amount_usd column holds the stripped text.
normalize_amount(frame, keepna) ==
    LET cents == [i \in 1..Len(frame.rows) |-> is_cent(AsTypeStr(frame.rows[i].amount, keepna))]
        text == [frame EXCEPT !.rows =
                    [i \in 1..Len(frame.rows) |->
                        [frame.rows[i] EXCEPT !.amount_usd = Stripped(frame.rows[i].amount, keepna)]]]
        num == [frame EXCEPT !.rows =
                    [i \in 1..Len(frame.rows) |->
                        [frame.rows[i] EXCEPT !.amount_usd = AmountUsd(frame.rows[i].amount, keepna)]]]
    IN  IF \E i \in 1..Len(text.rows) : ~AsFloatOk(text.rows[i].amount_usd)
        THEN [ok |-> FALSE, cents_rep |-> cents, inplace |-> text, df |-> text]
        ELSE [ok |-> TRUE, cents_rep |-> cents, inplace |-> num,
              df |-> Select(num, PositiveMask(num))]

(***************************************************************************)
(* extract_flags and the filter chain (lines 98-142).                      *)
(***************************************************************************)
\* ','.join(x) if isinstance(x, list) else x
FlagsToStr(v) == IF v.t = "list" THEN JStr(Join(v.l)) ELSE v

extract_flags(frame) ==
    [frame EXCEPT !.rows =
        [i \in 1..Len(frame.rows) |->
            [frame.rows[i] EXCEPT !.flags = FlagsToStr(frame.rows[i].flags)]]]

\* frame['flags'].str.contains(pat, na=False): False for an element that is
\* no str.
FlagsContain(frame, pat) ==
    [i \in 1..Len(frame.rows) |->
        frame.rows[i].flags.t = "str" /\ Contains(frame.rows[i].flags.s, pat)]

\* Variant: the 'sandbox' rows are left in.
remove_test_transactions_TestOnly(frame) ==
    IF AnyTrue(FlagsContain(frame, sTest)) \/ AnyTrue(FlagsContain(frame, sSandbox))
    THEN Drop(frame, Index(Select(frame, FlagsContain(frame, sTest))))
    ELSE frame

remove_test_transactions(frame) ==
    IF AnyTrue(FlagsContain(frame, sTest)) \/ AnyTrue(FlagsContain(frame, sSandbox))
    THEN LET noTest == Drop(frame, Index(Select(frame, FlagsContain(frame, sTest))))
         IN  Drop(noTest, Index(Select(noTest, FlagsContain(noTest, sSandbox))))
    ELSE frame

\* frame['amount_usd'].isnull()
AmountIsNull(frame) == [i \in 1..Len(frame.rows) |-> frame.rows[i].amount_usd.t = "nan"]
remove_null_amounts(frame) ==
    IF AnyTrue(AmountIsNull(frame)) THEN Select(frame, Not(AmountIsNull(frame))) ELSE frame

\* frame['amount_usd'] == 0
AmountIsZero(frame) ==
    [i \in 1..Len(frame.rows) |->
        frame.rows[i].amount_usd.t = "float" /\ frame.rows[i].amount_usd.m = 0]
remove_zero_amounts(frame) ==
    IF AnyTrue(AmountIsZero(frame)) THEN Select(frame, Not(AmountIsZero(frame))) ELSE frame

\* Variant: nothing is filled.
fill_na_flags_Skipped(frame) == frame

fill_na_flags(frame) ==
    IF AnyTrue(IsNullMask(frame, "flags"))
    THEN [frame EXCEPT !.rows =
            [i \in 1..Len(frame.rows) |->
                IF IsNull(frame.rows[i].flags)
                THEN [frame.rows[i] EXCEPT !.flags = JStr(sNormal)]
                ELSE frame.rows[i]]]
    ELSE frame

\* Two rows equal in every column (the index is no column).
SameRow(a, b) == \A f \in DataCols : a[f] = b[f]
\* frame.duplicated(): a row equal to an earlier one.
Duplicated(frame) ==
    [i \in 1..Len(frame.rows) |->
        \E j \in 1..(i - 1) : SameRow(frame.rows[j], frame.rows[i])]
\* frame.drop_duplicates() keeps the rows that are not duplicated.
drop_duplicates(frame) ==
    IF AnyTrue(Duplicated(frame)) THEN Select(frame, Not(Duplicated(frame))) ELSE frame

\* frame['payment_status'].isin(['FAILED', 'PENDING'])
FailedOrPending(frame) ==
    [i \in 1..Len(frame.rows) |->
        /\ frame.rows[i].payment_status.t = "str"
        /\ frame.rows[i].payment_status.s \in {sFAILED, sPENDING}]
drop_failed_pending_payments(frame) ==
    IF AnyTrue(FailedOrPending(frame)) THEN Select(frame, Not(FailedOrPending(frame))) ELSE frame

(***************************************************************************)
(* The raw events the input file may hold.                                 *)
(***************************************************************************)
WithIn(e, k1, k2, v) == With(e, k1, With(e.d[k1], k2, v))
WithoutIn(e, k1, k2) == With(e, k1, Without(e.d[k1], k2))

BaseEvent ==
    JDict([event |-> JDict([type |-> JStr(sPaid), ts |-> JStr(sTs)]),
           entity |-> JDict([order |-> JDict([id |-> JStr(sO1)]),
                             customer |-> JDict([email |-> JStr(sMail)]),
                             payment |-> JDict([id |-> JStr(sP1),
                                                provider_ref |-> JStr(sRef),
                                                provider |-> JStr(sProv)])]),
           payload |-> JDict([Amount |-> JStr(<<"2", "5", ".", "0", "0">>),
                              flags |-> JList(<<sNormal>>),
                              status |-> JStr(sSUCCESS)])])

AmountEvent(a) == WithIn(BaseEvent, "payload", "Amount", a)
FlagsEvent(f) == WithIn(BaseEvent, "payload", "flags", f)
StatusEvent(st) == WithIn(BaseEvent, "payload", "status", st)

ShapeEvents ==
    {BaseEvent,
     WithIn(BaseEvent, "event", "type", JStr(sHeartbeat)),
     Without(BaseEvent, "event"),
     Without(BaseEvent, "entity"),
     Without(BaseEvent, "payload"),
     WithoutIn(BaseEvent, "entity", "order"),
     WithIn(BaseEvent, "entity", "payment", JDict([id |-> JNull])),
     WithIn(BaseEvent, "entity", "payload", JDict([Currency |-> JStr(sEUR)])),
     With(BaseEvent, "entity", JNull)}

PipelineAmounts ==
    {JStr(<<"1", "0", "0", "0">>), JStr(<<"0">>), JStr(<<>>),
     JStr(<<"-", "5", ".", "0", "0">>), JStr(<<"1", "2", ".", "5", ".", "0">>)}

PipelineFlags ==
    {JList(<<sTest, sPromo>>), JList(<<sSandbox>>), JList(<<sContest>>),
     JList(<<sTEST>>), JStr(sNormal), JNull}

PipelineStatuses == {JStr(sFAILED), JStr(sPENDING), JNull}

EventPool ==
    ShapeEvents
    \cup {AmountEvent(a) : a \in PipelineAmounts}
    \cup {FlagsEvent(f) : f \in PipelineFlags}
    \cup {WithoutIn(BaseEvent, "payload", "flags")}
    \cup {StatusEvent(st) : st \in PipelineStatuses}

\* Every text over AmountAlphabet up to MaxLen characters.
AmountAlphabet == {"0", "5", ".", "$", "-", "U", "S", "D"}
Texts(n) == UNION {[1..k -> AmountAlphabet] : k \in 0..n}
NamedAmounts ==
    {<<"5", "0", "0">>, <<"$", "5", ".", "0", "0">>, <<"5", ".", "0", "0">>,
     <<"1", "2", ".", "5", ".", "0">>, <<"-", "5", ".", "0", "0">>,
     <<"-", "5", "0", "0">>, <<"U", "S", "D", " ", "5">>, <<"1", ",", "0", "0", "0">>}
AmountInputs == {JNull} \cup {JStr(a) : a \in Texts(MaxLen) \cup NamedAmounts}

(***************************************************************************)
(* The program: the module-level statements in order.                      *)
(***************************************************************************)
VARIABLES
    astype_keeps_na,    \* the pandas build: astype(str) keeps None missing
    data,               \* line 53: the raw events read
    relevant_datafile,  \* line 55
    df,                 \* line 56
    df1,                \* lines 69, 103, 104, 145-150
    cents_rep,          \* line 80: the series is_cent gave
    archive,            \* the documents of the MongoDB collection
    csv,                \* the rows written to cleaned_transactions.csv
    log,                \* the log records that tell the outcome of a step
    pc                  \* the statement to run next

vars == <<astype_keeps_na, data, relevant_datafile, df, df1, cents_rep, archive, csv, log, pc>>

NoFrame == [cols |-> FALSE, rows |-> <<>>]

Start(events) ==
    /\ astype_keeps_na \in BOOLEAN
    /\ data = events
    /\ relevant_datafile = [ok |-> TRUE, recs |-> <<>>]
    /\ df = NoFrame
    /\ df1 = NoFrame
    /\ cents_rep = <<>>
    /\ archive = <<>>
    /\ csv = <<>>
    /\ log = {}
    /\ pc = "getting_relevant_data"

Init == \E events \in UNION {[1..n -> EventPool] : n \in 0..MaxEvents} : Start(events)

\* Lines 55-57.
GettingRelevantData ==
    /\ pc = "getting_relevant_data"
    /\ relevant_datafile' = getting_relevant_data(data)
    /\ df' = DataFrame(relevant_datafile')
    /\ log' = IF relevant_datafile'.ok THEN log ELSE log \cup {"error_extracting"}
    /\ pc' = "clean_transactions"
    /\ UNCHANGED <<astype_keeps_na, data, df1, cents_rep, archive, csv>>

\* Line 69.  An uncaught exception ends the run.
CleanTransactions ==
    /\ pc = "clean_transactions"
    /\ LET r == clean_transactions(df)
       IN  /\ df1' = IF r.ok THEN r.df ELSE df1
           /\ pc' = IF r.ok THEN "normalize_amount" ELSE "aborted"
    /\ UNCHANGED <<astype_keeps_na, data, relevant_datafile, df, cents_rep, archive, csv, log>>

\* Line 103.  normalize_amount assigns the column on the frame it is given;
\* df1 is df itself when clean_transactions dropped nothing.
NormalizeAmount ==
    /\ pc = "normalize_amount"
    /\ LET r == normalize_amount(df1, astype_keeps_na)
       IN  /\ cents_rep' = r.cents_rep
           /\ df' = IF df1 = df THEN r.inplace ELSE df
           /\ df1' = r.df
           /\ pc' = IF r.ok THEN "extract_flags" ELSE "aborted"
    /\ UNCHANGED <<astype_keeps_na, data, relevant_datafile, archive, csv, log>>

\* Line 104.
ExtractFlags ==
    /\ pc = "extract_flags"
    /\ df1' = extract_flags(df1)
    /\ pc' = "remove_test_transactions"
    /\ UNCHANGED <<astype_keeps_na, data, relevant_datafile, df, cents_rep, archive, csv, log>>

Stage(at, result, next) ==
    /\ pc = at
    /\ df1' = result
    /\ pc' = next
    /\ UNCHANGED <<astype_keeps_na, data, relevant_datafile, df, cents_rep, archive, csv, log>>

\* Lines 145-150.
RemoveTestTransactions ==
    Stage("remove_test_transactions", remove_test_transactions(df1), "remove_null_amounts")
RemoveNullAmounts ==
    Stage("remove_null_amounts", remove_null_amounts(df1), "remove_zero_amounts")
RemoveZeroAmounts ==
    Stage("remove_zero_amounts", remove_zero_amounts(df1), "drop_failed_pending_payments")
DropFailedPendingPayments ==
    Stage("drop_failed_pending_payments", drop_failed_pending_payments(df1), "drop_duplicates")
DropDuplicates ==
    Stage("drop_duplicates", drop_duplicates(df1), "fill_na_flags")
FillNaFlags ==
    Stage("fill_na_flags", fill_na_flags(df1), "archive")

\* Lines 164-177 (lines 153-160 only print).  The collection starts empty
\* here; insert_many appends the raw events as read.
Archive ==
    /\ pc = "archive"
    /\ IF data # <<>>
       THEN /\ archive' = archive \o data
            /\ log' = log \cup {"archived"}
       ELSE /\ archive' = archive
            /\ log' = log \cup {"no_raw_data"}
    /\ pc' = "export"
    /\ UNCHANGED <<astype_keeps_na, data, relevant_datafile, df, df1, cents_rep, csv>>

\* Lines 180-186: to_csv(index=False) writes the columns without the index.
CsvRow(r) == [f \in DataCols |-> r[f]]
Export ==
    /\ pc = "export"
    /\ csv' = [i \in 1..Len(df1.rows) |-> CsvRow(df1.rows[i])]
    /\ log' = log \cup {"exported"}
    /\ pc' = "done"
    /\ UNCHANGED <<astype_keeps_na, data, relevant_datafile, df, df1, cents_rep, archive>>

Next ==
    \/ GettingRelevantData
    \/ CleanTransactions
    \/ NormalizeAmount
    \/ ExtractFlags
    \/ RemoveTestTransactions
    \/ RemoveNullAmounts
    \/ RemoveZeroAmounts
    \/ DropFailedPendingPayments
    \/ DropDuplicates
    \/ FillNaFlags
    \/ Archive
    \/ Export

Spec == Init /\ [][Next]_vars

\* The amount normaliser on one event, its amount drawn from AmountInputs.
InitAmount == \E a \in AmountInputs : Start(<<AmountEvent(a)>>)
NextAmount == GettingRelevantData \/ CleanTransactions \/ NormalizeAmount
SpecAmount == InitAmount /\ [][NextAmount]_vars

(***************************************************************************)
(* Properties of the whole run (specification Spec).                       *)
(***************************************************************************)
Cleaned == pc \in {"archive", "export", "done"}
Rows(frame) == {frame.rows[i] : i \in 1..Len(frame.rows)}
Recs == {relevant_datafile.recs[i] : i \in 1..Len(relevant_datafile.recs)}

ValidRecord(r) ==
    /\ r.order_id.t # "null"
    /\ r.payment_id.t # "null"
    /\ r.amount_usd.t = "float" /\ r.amount_usd.m > 0
    /\ ~(r.payment_status.t = "str" /\ r.payment_status.s \in {sFAILED, sPENDING})
    /\ r.flags.t # "null"

\* C1: once the whole pipeline has run, every surviving record (of df1, and
\* of the exported file) has order_id and payment_id not null, amount_usd > 0,
\* payment_status neither FAILED nor PENDING, and flags not null.
C1_CleanedRecordsValid ==
    Cleaned =>
        /\ \A r \in Rows(df1) : ValidRecord(r)
        /\ \A i \in 1..Len(csv) : ValidRecord(csv[i])

\* A run that exported one record whose flags were null in the raw event,
\* having dropped a FAILED payment.
C1_Witness ==
    /\ pc = "done"
    /\ Len(csv) = 1
    /\ csv[1].flags = JStr(sNormal)
    /\ \E r \in Recs : r.flags = JNull
    /\ \E r \in Recs : r.payment_status = JStr(sFAILED)

\* The value at a path of nested dicts, when every key of it is there.
RECURSIVE Present(_, _)
Present(j, path) ==
    IF path = <<>> THEN TRUE
    ELSE /\ j.t = "dict"
         /\ Head(path) \in DOMAIN j.d
         /\ Present(j.d[Head(path)], Tail(path))
RECURSIVE ValueAt(_, _)
ValueAt(j, path) == IF path = <<>> THEN j ELSE ValueAt(j.d[Head(path)], Tail(path))

AllPaths == {PathType} \cup {FieldPaths[f] : f \in DOMAIN FieldPaths}
\* Keys may be absent, but what is present above a leaf is a dict.
WellShaped(e) ==
    \A path \in AllPaths : \A k \in 0..(Len(path) - 1) :
        Present(e, SubSeq(path, 1, k)) => ValueAt(e, SubSeq(path, 1, k)).t = "dict"

NotHeartbeat(e) == ~(Present(e, PathType) /\ ValueAt(e, PathType) = JStr(sHeartbeat))
ExpectedField(e, f, noFlags) ==
    IF Present(e, FieldPaths[f]) THEN ValueAt(e, FieldPaths[f])
    ELSE IF f = "currency" THEN JStr(sUSD)
    ELSE IF f = "flags" THEN noFlags
    ELSE JNull
\* What getting_relevant_data has returned, seen right after lines 55-57
\* (nothing assigns relevant_datafile later).
ExtractionIs(noFlags) ==
    (pc = "clean_transactions" /\ \A i \in 1..Len(data) : WellShaped(data[i])) =>
        LET kept == SelectSeq(data, NotHeartbeat)
        IN  /\ relevant_datafile.ok
            /\ Len(relevant_datafile.recs) = Len(kept)
            /\ \A i \in 1..Len(kept) : \A f \in DOMAIN FieldPaths :
                   relevant_datafile.recs[i][f] = ExpectedField(kept[i], f, noFlags)

sTestPromo == <<"t", "e", "s", "t", ",", "p", "r", "o", "m", "o">>
NamesTestOrSandbox(r) ==
    /\ r.flags.t = "str"
    /\ \/ \E i \in 1..(Len(r.flags.s) - 3) : SubSeq(r.flags.s, i, i + 3) = sTest
       \/ \E i \in 1..(Len(r.flags.s) - 6) : SubSeq(r.flags.s, i, i + 6) = sSandbox

\* C4: extract_flags turns the list ["test","promo"] into "test,promo", and
\* remove_test_transactions removes exactly the rows whose flags text
\* contains "test" or "sandbox", case-sensitively, keeping the others in order.
C4_TestFlagFilter ==
    [][/\ pc = "extract_flags" =>
            \A i \in 1..Len(df1.rows) :
                df1.rows[i].flags = JList(<<sTest, sPromo>>)
                    => df1'.rows[i].flags = JStr(sTestPromo)
       /\ pc = "remove_test_transactions" =>
            df1'.rows = SelectSeq(df1.rows, LAMBDA r : ~NamesTestOrSandbox(r))]_vars

\* The filter has run: the ["test","promo"] record is gone, the "TEST"
\* record is still there.
C4_Witness ==
    /\ pc = "remove_null_amounts"
    /\ \E r \in Recs : r.flags = JList(<<sTest, sPromo>>)
    /\ \A r \in Rows(df1) : r.flags = JStr(sTEST)
    /\ df1.rows # <<>>

\* C5: in the final output no two records are identical across all fields.
C5_NoIdenticalRows ==
    pc = "done" => \A i, j \in 1..Len(csv) : i # j => csv[i] # csv[j]

\* C6: every run reaches the archival step: a run that has ended has
\* inserted the whole raw set, unmodified, when it is not empty, and has
\* logged the warning without inserting when it is empty.
C6_ArchivalAlwaysReached ==
    pc \in {"done", "aborted"} =>
        IF data # <<>>
        THEN archive = data /\ "archived" \in log
        ELSE archive = <<>> /\ "no_raw_data" \in log

\* Line 69 and lines 145-150 applied once more.
FilterChain(frame) ==
    fill_na_flags(
        drop_duplicates(
            drop_failed_pending_payments(
                remove_zero_amounts(
                    remove_null_amounts(
                        remove_test_transactions(
                            clean_transactions(frame).df))))))

\* C9: the filter chain applied to the set the pipeline produced removes no
\* row and changes no value.
C9_FilterChainIdempotent == pc = "done" => FilterChain(df1) = df1

(***************************************************************************)
(* Properties of normalize_amount (specification SpecAmount).              *)
(***************************************************************************)
\* Line 103 has run (or raised).
NormalizeDone == pc \in {"extract_flags", "aborted"}
\* The rows normalize_amount was given: those of df with both ids.
Given == clean_transactions(df).df.rows
RawAmount(i) == Given[i].amount
StrForm(i) == AsTypeStr(RawAmount(i), astype_keeps_na)
StrippedForm(i) == Stripped(RawAmount(i), astype_keeps_na)
\* The rows of df1 that come from the i-th row given.
Survivors(i) == {r \in Rows(df1) : r.idx = Given[i].idx}

NoMarker(s) ==
    /\ CountOf(s, ".") = 0
    /\ CountOf(s, "$") = 0
    /\ ~\E k \in 1..(Len(s) - 2) : s[k] = "U" /\ s[k + 1] = "S" /\ s[k + 2] = "D"

RECURSIVE Pow10(_)
Pow10(n) == IF n = 0 THEN 1 ELSE 10 * Pow10(n - 1)
\* u * k = v, for floats u and v.
Times(u, k, v) ==
    /\ u.t = "float"
    /\ v.t = "float"
    /\ u.m * k * Pow10(v.e) = v.m * Pow10(u.e)

s500 == <<"5", "0", "0">>
sDollar5 == <<"$", "5", ".", "0", "0">>
s5 == <<"5", ".", "0", "0">>
sMinus5 == <<"-", "5", ".", "0", "0">>
sMinus500 == <<"-", "5", "0", "0">>
sMalformed == <<"1", "2", ".", "5", ".", "0">>

\* C2: an amount is classified as cents exactly when its string form is
\* there, is not empty and holds none of '.', '$', 'USD'; the amount_usd of
\* a surviving record is the number parsed from the stripped string, divided
\* by 100 when classified as cents and undivided otherwise; "500", "$5.00"
\* and "5.00" all give 5.00.
C2_CentsClassification ==
    NormalizeDone =>
        \A i \in 1..Len(cents_rep) :
            /\ cents_rep[i] <=>
                   (StrForm(i).t = "str" /\ StrForm(i).s # <<>> /\ NoMarker(StrForm(i).s))
            /\ pc = "extract_flags" =>
                   \A r \in Survivors(i) :
                       Times(r.amount_usd, IF cents_rep[i] THEN 100 ELSE 1,
                             FloatOf(StrippedForm(i).s))
            /\ (pc = "extract_flags" /\ RawAmount(i) \in {JStr(s500), JStr(sDollar5), JStr(s5)}) =>
                   \E r \in Survivors(i) : r.amount_usd = Float(5, 0)

\* "500" was classified as cents and gave 5.00.
C2_Witness ==
    /\ pc = "extract_flags"
    /\ RawAmount(1) = JStr(s500)
    /\ cents_rep = <<TRUE>>
    /\ df1.rows[1].amount_usd = Float(500, 2)

\* C7: a stripped amount that does not parse as a number is not fatal:
\* normalize_amount completes and the record is removed.
C7_ParseFailureNotFatal ==
    NormalizeDone =>
        \A i \in 1..Len(cents_rep) :
            (StrippedForm(i).t = "nan" \/ ~FloatOk(StrippedForm(i).s)) =>
                pc = "extract_flags" /\ Survivors(i) = {}

ManyDots(i) == RawAmount(i).t = "str" /\ CountOf(RawAmount(i).s, ".") > 1

HasNonZeroDigit(s) == \E k \in 1..Len(s) : s[k] \in Digits \ {"0"}

\* C10: an amount with a leading '-' gets the amount_usd its unsigned text
\* would get, a positive one, and when normalize_amount completes it
\* survives the amount_usd > 0 filter whenever a digit of it is not 0.
C10_SignDiscarded ==
    (pc = "extract_flags") =>
        \A i \in 1..Len(cents_rep) :
            (RawAmount(i).t = "str" /\ RawAmount(i).s # <<>> /\ Head(RawAmount(i).s) = "-") =>
                /\ \A r \in Survivors(i) :
                       /\ r.amount_usd = AmountUsd(JStr(Tail(RawAmount(i).s)), astype_keeps_na)
                       /\ r.amount_usd.m > 0
                /\ HasNonZeroDigit(RawAmount(i).s) => Survivors(i) # {}
                /\ RawAmount(i).s = sMinus5 => \E r \in Survivors(i) : r.amount_usd = Float(5, 0)
                /\ RawAmount(i).s = sMinus500 => \E r \in Survivors(i) : r.amount_usd = Float(5, 0)

\* "-500" went through and came out as 5.00.
C10_Witness ==
    /\ pc = "extract_flags"
    /\ RawAmount(1) = JStr(sMinus500)
    /\ Survivors(1) # {}
    /\ df1.rows[1].amount_usd = Float(5, 0)

====
